---- MODULE Spec2Model ----
(***************************************************************************)
(* Model of smart-path-finder: the path interpolation and closest-point   *)
(* helpers of PathVisualization, and the PathVisualization component as a *)
(* state machine (load, animation frames, obstacle handling, effects)     *)
(* under the PathFinder page, and the calls of pathFinding.ts (findPath,  *)
(* findAlternativeRoute and their fallbacks), detectObstacle and the      *)
(* CameraFeed processing loop, the round-robin variants of the route      *)
(* component, and LocationForm under the Index page.                      *)
(*                                                                         *)
(* Coordinates are exact rationals lat/den, lng/den on a small grid.      *)
(* Distances are fixed-point: DistScale units per degree, rounded down,   *)
(* over the planar distance (L.LatLng.distanceTo is monotone in it for    *)
(* the small areas modelled, zero exactly for equal coordinates).         *)
(* Progress values are the rationals n/ProgDen, n in 0..ProgDen.          *)
(* JavaScript's 0/0 is kept as the value NaN: it is never replaced by a   *)
(* number.                                                                 *)
(***************************************************************************)
EXTENDS Integers, Sequences, FiniteSets, TLC

\* ---------------------------------------------------------------- bounds
GridMax == 1      \* latitudes and longitudes of path points: 0..GridMax
MaxLen == 3       \* longest path drawn as an input
ProgDen == 4      \* progress values are n/ProgDen

MaxNow == 10000   \* the clock stops here
MaxObstacles == 2 \* obstacle events accepted by the parent page
MaxClicks == 1    \* user actions on the page: mode buttons, route buttons, closing the alert

VARIABLES
  path,             \* the path (geometry) the helpers are called on
  call,             \* the last helper call: its name, arguments and result
  variant,          \* which PathVisualization is mounted
  preferredMode,    \* prop preferredMode
  clicks,           \* user actions on the page so far
  obstacleDetected, \* prop obstacleDetected (state of the parent page)
  isPathComplete,   \* parent page: onPathComplete was called
  obstacles,        \* obstacle events accepted so far
  loadPending,      \* loadPathData calls awaiting findPath: the preferredMode each closed over
  loaded,           \* routeData is not null
  routes,           \* routeData.routes
  currentPathIndex,
  pathProgress,     \* numerator over ProgDen
  currentPosition,
  isMoving,
  isCalculating,
  isRerouting,
  lastObstacleTime,
  now,              \* Date.now()
  animationRef,     \* animationRef.current: "null", a live request, or "stale"
  loops,            \* the requestAnimationFrame loops that have a frame requested
  animCleanup,      \* the animation effect's last run returned a clean-up
  fetches,          \* handleObstacle calls awaiting findAlternativeRoute
  timers,           \* setTimeout callbacks not yet run
  pending,          \* effects whose dependencies changed and that have not run yet
  mark              \* history of the last reroute, for the properties

pureVars == <<path, call>>
sessionVars == <<variant, preferredMode, clicks, obstacleDetected, isPathComplete, obstacles,
                 loadPending, loaded, routes, currentPathIndex, pathProgress,
                 currentPosition, isMoving, isCalculating, isRerouting,
                 lastObstacleTime, now, animationRef, loops, animCleanup, fetches,
                 timers, pending, mark>>
vars == <<pureVars, sessionVars>>

\* ------------------------------------------------------------ arithmetic
Abs(x) == IF x < 0 THEN -x ELSE x

RECURSIVE GCD(_, _)
GCD(a, b) == IF b = 0 THEN a ELSE GCD(b, a % b)

RECURSIVE SqrtSearch(_, _, _)
SqrtSearch(n, lo, hi) ==
  IF lo >= hi THEN lo
  ELSE LET mid == (lo + hi + 1) \div 2
       IN  IF mid * mid <= n THEN SqrtSearch(n, mid, hi)
           ELSE SqrtSearch(n, lo, mid - 1)

ISqrt(n) == SqrtSearch(n, 0, n)

\* a fraction n/d in lowest terms, d > 0
Frac(n, d) == LET g == GCD(Abs(n), d) IN <<n \div g, d \div g>>

FracLeq(f, g) == f[1] * g[2] <= g[1] * f[2]

\* the point (latN/den, lngN/den), in lowest terms
LatLng(latN, lngN, den) ==
  LET g == GCD(GCD(Abs(latN), Abs(lngN)), den)
  IN  [lat |-> latN \div g, lng |-> lngN \div g, den |-> den \div g]

GridPoints == {LatLng(a, b, 1) : a \in 0..GridMax, b \in 0..GridMax}

Progresses == 0..ProgDen

RECURSIVE SeqSum(_)
SeqSum(s) == IF s = <<>> THEN 0 ELSE Head(s) + SeqSum(Tail(s))

\* L.LatLng.distanceTo: DistScale units per degree, rounded down
DistScale == 10

distanceTo(p1, p2) ==
  LET d  == p1.den * p2.den
      nx == p1.lat * p2.den - p2.lat * p1.den
      ny == p1.lng * p2.den - p2.lng * p1.den
  IN  ISqrt((DistScale * DistScale * (nx * nx + ny * ny)) \div (d * d))

\* ------------------------------------------------- getPointAlongPath
\* results: a LatLng with the segment (0-based) and fraction it was taken
\* at; NaN (0/0 reached the LatLng constructor); undefined (path[0] of an
\* empty array)
Undefined == [kind |-> "undefined"]
NaN == [kind |-> "NaN"]
Found(pt, seg, fr) == [kind |-> "LatLng", point |-> pt, segment |-> seg, frac |-> fr]

segmentLengths(p) ==
  [i \in 1..(Len(p) - 1) |-> distanceTo(p[i], p[i + 1])]

\* linear interpolation of latitude and longitude, each on its own
Interpolate(p1, p2, fr) ==
  LET d == p1.den * p2.den * fr[2]
  IN  LatLng(p1.lat * p2.den * fr[2] + (p2.lat * p1.den - p1.lat * p2.den) * fr[1],
             p1.lng * p2.den * fr[2] + (p2.lng * p1.den - p1.lng * p2.den) * fr[1],
             d)

\* the search loop, from segment i (1-based here, 0-based in the result)
RECURSIVE WalkFlipped(_, _, _, _, _, _)
WalkFlipped(p, lens, total, pn, i, distanceSoFar) ==
  IF i > Len(p) - 1 THEN Found(p[Len(p)], Len(p) - 1, <<0, 1>>)
  ELSE IF (distanceSoFar + lens[i]) * ProgDen <= pn * total
       THEN IF lens[i] = 0 THEN NaN
            ELSE LET fr == Frac(pn * total - distanceSoFar * ProgDen, lens[i] * ProgDen)
                 IN  Found(Interpolate(p[i], p[i + 1], fr), i - 1, fr)
       ELSE WalkFlipped(p, lens, total, pn, i + 1, distanceSoFar + lens[i])

RECURSIVE Walk(_, _, _, _, _, _)
Walk(p, lens, total, pn, i, distanceSoFar) ==
  IF i > Len(p) - 1 THEN Found(p[Len(p)], Len(p) - 1, <<0, 1>>)
  ELSE IF (distanceSoFar + lens[i]) * ProgDen >= pn * total
       THEN IF lens[i] = 0 THEN NaN
            ELSE LET fr == Frac(pn * total - distanceSoFar * ProgDen, lens[i] * ProgDen)
                 IN  Found(Interpolate(p[i], p[i + 1], fr), i - 1, fr)
       ELSE Walk(p, lens, total, pn, i + 1, distanceSoFar + lens[i])

getPointAlongPath(p, pn) ==
  IF Len(p) = 0 THEN Undefined
  ELSE IF Len(p) = 1 THEN Found(p[1], 0, <<0, 1>>)
  ELSE LET lens == segmentLengths(p)
       IN  Walk(p, lens, SeqSum(lens), pn, 1, 0)

\* ------------------------------------------- calculatePositionAlongPath
\* the SVG variant: equal progress per segment; {x: 0, y: 0} when empty
Min(a, b) == IF a <= b THEN a ELSE b

calculatePositionAlongPath(p, pn) ==
  IF Len(p) = 0 THEN Found(LatLng(0, 0, 1), 0, <<0, 1>>)
  ELSE IF Len(p) = 1 THEN Found(p[1], 0, <<0, 1>>)
  ELSE LET totalSegments == Len(p) - 1
           currentSegmentIndex == Min((pn * totalSegments) \div ProgDen, totalSegments - 1)
           fr == Frac(pn * totalSegments - currentSegmentIndex * ProgDen, ProgDen)
       IN  Found(Interpolate(p[currentSegmentIndex + 1], p[currentSegmentIndex + 2], fr),
                 currentSegmentIndex, fr)

\* ------------------------------------------------ findClosestPointIndex
\* minDistance starts at Infinity (-1 here); a point replaces the minimum
\* only when strictly closer
RECURSIVE ScanLast(_, _, _, _, _)
ScanLast(geometry, position, i, minDistance, closestIndex) ==
  IF i > Len(geometry) THEN closestIndex
  ELSE LET distance == distanceTo(position, geometry[i])
       IN  IF minDistance = -1 \/ distance <= minDistance
           THEN ScanLast(geometry, position, i + 1, distance, i - 1)
           ELSE ScanLast(geometry, position, i + 1, minDistance, closestIndex)

RECURSIVE Scan(_, _, _, _, _)
Scan(geometry, position, i, minDistance, closestIndex) ==
  IF i > Len(geometry) THEN closestIndex
  ELSE LET distance == distanceTo(position, geometry[i])
       IN  IF minDistance = -1 \/ distance < minDistance
           THEN Scan(geometry, position, i + 1, distance, i - 1)
           ELSE Scan(geometry, position, i + 1, minDistance, closestIndex)

findClosestPointIndex(geometry, position) == Scan(geometry, position, 1, -1, 0)

\* ------------------------------------------------- the helper calls
\* A path is drawn; the animation calls getPointAlongPath on it frame after
\* frame, the other two helpers are applied once to the drawn input.
Paths == UNION {[1..n -> GridPoints] : n \in 0..MaxLen}

NoCall == [op |-> "none"]

\* the component is not mounted: the state the helper calls leave alone
Null == [kind |-> "null"]
NoMark == [stage |-> "none"]

SessionIdle ==
  /\ variant = "none"
  /\ preferredMode = "driving"
  /\ obstacleDetected = FALSE
  /\ isPathComplete = FALSE
  /\ obstacles = 0
  /\ loadPending = {}
  /\ clicks = 0
  /\ loaded = FALSE
  /\ routes = <<>>
  /\ currentPathIndex = 0
  /\ pathProgress = 0
  /\ currentPosition = Null
  /\ isMoving = FALSE
  /\ isCalculating = FALSE
  /\ isRerouting = FALSE
  /\ lastObstacleTime = 0
  /\ now = 0
  /\ animationRef = "null"
  /\ loops = {}
  /\ animCleanup = FALSE
  /\ fetches = <<>>
  /\ timers = {}
  /\ pending = {}
  /\ mark = NoMark

InitPath ==
  /\ path \in Paths
  /\ call = NoCall
  /\ SessionIdle

CallGetPointAlongPath ==
  \E pn \in Progresses :
    /\ call.op \in {"none", "getPointAlongPath"}
    /\ call' = [op |-> "getPointAlongPath", progress |-> pn,
                result |-> getPointAlongPath(path, pn)]
    /\ UNCHANGED <<path, sessionVars>>

CallCalculatePositionAlongPath ==
  \E pn \in Progresses :
    /\ call = NoCall
    /\ call' = [op |-> "calculatePositionAlongPath", progress |-> pn,
                result |-> calculatePositionAlongPath(path, pn)]
    /\ UNCHANGED <<path, sessionVars>>

CallFindClosestPointIndex ==
  \E position \in GridPoints :
    /\ call = NoCall
    /\ call' = [op |-> "findClosestPointIndex", position |-> position,
                result |-> findClosestPointIndex(path, position)]
    /\ UNCHANGED <<path, sessionVars>>

NextPath ==
  \/ CallGetPointAlongPath
  \/ CallCalculatePositionAlongPath
  \/ CallFindClosestPointIndex

SpecPath == InitPath /\ [][NextPath]_vars

\* ------------------------------------------------ properties of the helpers
IsGetPoint == call.op = "getPointAlongPath"

\* cumulative length of the first i segments
CumEnd(lens, i) == SeqSum(SubSeq(lens, 1, i))

\* the first segment (1-based) whose cumulative end reaches the target
FirstReaching(lens, pn) ==
  CHOOSE i \in 1..Len(lens) :
    /\ CumEnd(lens, i) * ProgDen >= pn * SeqSum(lens)
    /\ \A j \in 1..(i - 1) : CumEnd(lens, j) * ProgDen < pn * SeqSum(lens)

\* the point of that segment at (target - distance before) / segment length;
\* a segment of length 0 has one point only
ExpectedPoint(p, pn) ==
  LET lens == segmentLengths(p)
      i == FirstReaching(lens, pn)
  IN  IF lens[i] = 0 THEN p[i]
      ELSE Interpolate(p[i], p[i + 1],
             Frac(pn * SeqSum(lens) - CumEnd(lens, i - 1) * ProgDen, lens[i] * ProgDen))

PositiveSegments(p) ==
  /\ Len(p) >= 2
  /\ \A i \in 1..(Len(p) - 1) : segmentLengths(p)[i] > 0

AllCoincide(p) == \A i \in 1..Len(p) : p[i] = p[1]

ZeroNextToNonZero(p) ==
  \E i \in 1..(Len(p) - 2) :
    LET lens == segmentLengths(p)
    IN  (lens[i] = 0 /\ lens[i + 1] > 0) \/ (lens[i] > 0 /\ lens[i + 1] = 0)

\* distance from the start of the path to a returned point, as a fraction
Travelled(p, r) ==
  LET lens == segmentLengths(p)
  IN  IF r.segment >= Len(lens) THEN <<SeqSum(lens), 1>>
      ELSE Frac(CumEnd(lens, r.segment) * r.frac[2] + r.frac[1] * lens[r.segment + 1],
                r.frac[2])

\* C1: for every non-empty path P, getPointAlongPath(P, 0) is P[0] and
\* getPointAlongPath(P, 1) is the last point of P.
C1_Endpoints ==
  (IsGetPoint /\ Len(path) >= 1) =>
    /\ call.progress = 0 =>
         (call.result.kind = "LatLng" /\ call.result.point = path[1])
    /\ call.progress = ProgDen =>
         (call.result.kind = "LatLng" /\ call.result.point = path[Len(path)])

\* C2: on a path of two or more points with total length > 0 the result is the
\* point of the first segment whose cumulative end distance reaches
\* progress * totalLength, at fraction (target - distance before) / segment
\* length, latitude and longitude interpolated linearly.
C2_FirstReachingSegment ==
  (IsGetPoint /\ Len(path) >= 2 /\ SeqSum(segmentLengths(path)) > 0) =>
    /\ call.result.kind = "LatLng"
    /\ call.result.point = ExpectedPoint(path, call.progress)

\* C3: on a path with a zero-length segment next to a non-zero one no division
\* by zero happens: the result is a point, and it is not taken on a
\* zero-length segment.
C3_NoZeroDivision ==
  (IsGetPoint /\ ZeroNextToNonZero(path)) =>
    /\ call.result.kind = "LatLng"
    /\ call.result.segment < Len(path) - 1 =>
         segmentLengths(path)[call.result.segment + 1] > 0

\* C4: when all points of a path of two or more points coincide, the result
\* is the first point for every progress.
C4_DegenerateFirstPoint ==
  (IsGetPoint /\ Len(path) >= 2 /\ AllCoincide(path)) =>
    (call.result.kind = "LatLng" /\ call.result.point = path[1])

\* C5: interpolation on a path of 0 points fails with an InvalidInput error
\* and returns no value.
C5_EmptyPathRejected ==
  (call.op \in {"getPointAlongPath", "calculatePositionAlongPath"} /\ Len(path) = 0) =>
    call.result.kind = "InvalidInput"

\* C6: on a path whose segments all have positive length, a call with a
\* smaller progress returns a point no farther along the path than a call
\* with a greater progress.
C6_Monotone ==
  [][(/\ IsGetPoint
      /\ call'.op = "getPointAlongPath"
      /\ PositiveSegments(path)
      /\ call.progress < call'.progress)
     => (/\ call.result.kind = "LatLng"
         /\ call'.result.kind = "LatLng"
         /\ FracLeq(Travelled(path, call.result), Travelled(path, call'.result)))]_vars

C6_Witness ==
  /\ IsGetPoint
  /\ PositiveSegments(path)
  /\ Len(path) = 3
  /\ segmentLengths(path)[1] # segmentLengths(path)[2]
  /\ call.progress \in 1..(ProgDen - 1)
  /\ call.result.kind = "LatLng"
  /\ call.result.segment = 1
  /\ call.result.frac[1] > 0

Cooldown == 5000
TickMs == 5000

\* progress advances by FrameStep / ProgDen from one observed frame to the next
FrameStep == 2

Variants == {"basic", "preferred", "cooldown"}

Pt(a, b) == LatLng(a, b, 1)
sourceLocation == Pt(0, 0)
destinationLocation == Pt(2, 2)
Via == Pt(1, 1)

Route(mode, geometry) == [transportMode |-> mode, geometry |-> geometry]

Driving1 == Route("driving", <<Pt(0, 0), Pt(0, 1), Pt(0, 2), Pt(1, 2), Pt(2, 2)>>)
Driving2 == Route("driving", <<Pt(0, 0), Pt(1, 0), Pt(2, 0), Pt(2, 1), Pt(2, 2)>>)
generateFlightRoute == Route("flight", <<sourceLocation, destinationLocation>>)

\* what findPath resolves with: the routes of the routing service followed by
\* the flight route, or the simulated routes sorted by duration (the flight
\* route first)
RouteSets ==
  { <<generateFlightRoute>>,
    <<Driving1, generateFlightRoute>>,
    <<Driving1, Driving2, generateFlightRoute>>,
    <<generateFlightRoute, Driving1, Driving2>> }

\* what findAlternativeRoute resolves with: a driving route from the current
\* position to the destination
Alternatives(position) ==
  { Route("driving", <<position, destinationLocation>>),
    Route("driving", <<position, Via, destinationLocation>>) }

\* routes.findIndex(r => r.transportMode === mode), 0-based, -1 when none
findIndex(rs, mode) ==
  IF \E i \in 1..Len(rs) : rs[i].transportMode = mode
  THEN (CHOOSE i \in 1..Len(rs) :
          /\ rs[i].transportMode = mode
          /\ \A j \in 1..(i - 1) : rs[j].transportMode # mode) - 1
  ELSE -1

\* routes.findIndex((r, i) => i !== skip && r.transportMode === mode)
findIndexOther(rs, mode, skip) ==
  IF \E i \in 1..Len(rs) : i - 1 # skip /\ rs[i].transportMode = mode
  THEN (CHOOSE i \in 1..Len(rs) :
          /\ i - 1 # skip /\ rs[i].transportMode = mode
          /\ \A j \in 1..(i - 1) : ~(j - 1 # skip /\ rs[j].transportMode = mode)) - 1
  ELSE -1

\* --------------------------------------------------------------- effects
Effects ==
  IF variant = "preferred"
  THEN {"routeInfo", "preferred", "load", "animation", "obstacle"}
  ELSE {"animation", "obstacle"}

\* the order of the useEffect calls in the component
EffectOrder(e) ==
  IF e = "routeInfo" THEN 0
  ELSE IF e = "preferred" THEN 1
  ELSE IF e = "load" THEN 2
  ELSE IF e = "animation" THEN 3
  ELSE 4

\* the state and props in the dependency arrays
Deps(e) ==
  IF e = "routeInfo" THEN <<loaded, routes, currentPathIndex, currentPosition>>
  ELSE IF e = "preferred" THEN <<preferredMode, loaded, routes>>
  ELSE IF e = "load" THEN <<preferredMode>>
  ELSE IF e = "animation"
       THEN <<loaded, routes, currentPathIndex, isMoving, isCalculating>>
  ELSE IF variant = "basic"
       THEN <<obstacleDetected, loaded, routes, currentPathIndex, currentPosition>>
  ELSE <<obstacleDetected, loaded, routes, currentPathIndex, currentPosition,
         lastObstacleTime, isRerouting>>

\* the callbacks in the dependency arrays (onRouteInfoUpdate, onPathComplete,
\* resetObstacleDetected): the page creates them anew each time it renders
CallbackEffects == {"routeInfo", "animation", "obstacle"} \cap Effects

\* setCurrentPosition with a new L.LatLng or array: a new value for the
\* dependency arrays even when the coordinates are the same
PositionEffects == {"routeInfo", "obstacle"} \cap Effects

\* this step sets state of the page, which renders again
PageRenders ==
  \/ obstacleDetected' # obstacleDetected
  \/ isPathComplete' # isPathComplete
  \/ obstacles' # obstacles
  \/ preferredMode' # preferredMode

Changed ==
  {e \in Effects : Deps(e)' # Deps(e)} \cup (IF PageRenders THEN CallbackEffects ELSE {})

\* after a task: the effects to run are those whose dependencies changed
Commit == pending' = pending \cup Changed

\* after a task that called setCurrentPosition
CommitWrite == pending' = pending \cup Changed \cup PositionEffects

\* after an effect ran: itself done, plus those whose dependencies it changed
CommitEffect(e) == pending' = (pending \ {e}) \cup Changed

Runs(e) ==
  /\ e \in pending
  /\ \A f \in pending : EffectOrder(e) <= EffectOrder(f)

Idle == pending = {}

\* ------------------------------------------------------ animation frames
\* request ids are named "1", "2", ...; animationRef.current is one of them, "null"
\* or "stale" (the id of a request that was cancelled or has run)
FreshId(live) ==
  ToString(CHOOSE i \in 1..(Cardinality(live) + 1) : \A l \in live : l.id # ToString(i))

NewLoopId == FreshId(loops)

\* cancelAnimationFrame(animationRef.current)
Cancelled(ref) == {l \in loops : l.id # ref}

StaleIfLive(ref) == IF \E l \in loops : l.id = ref THEN "stale" ELSE ref

\* ------------------------------------------------------------ the history
HandlingFrom(position) ==
  [stage |-> "handling", positionBefore |-> position,
   appended |-> FALSE, written |-> Null, route |-> <<>>]

Handling == HandlingFrom(currentPosition)

\* preferredMode was changed at progress pathProgress and no obstacle has been
\* handled since
ModeChanged == [stage |-> "mode", progressBefore |-> pathProgress]

Rerouted(m, appended) == [m EXCEPT !.stage = "rerouted", !.appended = appended]

Wrote(m, point, geometry) ==
  IF m.stage = "rerouted" /\ m.written = Null
  THEN [m EXCEPT !.written = point, !.route = geometry]
  ELSE m

\* ------------------------------------------------------------------ mount
Init ==
  /\ path = <<>>
  /\ call = NoCall
  /\ variant \in Variants
  /\ preferredMode \in (IF variant = "preferred" THEN {"driving", "flight"} ELSE {"driving"})
  /\ obstacleDetected = FALSE
  /\ isPathComplete = FALSE
  /\ obstacles = 0
  /\ loadPending = {preferredMode}
  /\ clicks = 0
  /\ loaded = FALSE
  /\ routes = <<>>
  /\ currentPathIndex = 0
  /\ pathProgress = 0
  /\ currentPosition = Null
  /\ isMoving = FALSE
  /\ isCalculating = TRUE
  /\ isRerouting = FALSE
  /\ lastObstacleTime = 0
  /\ now = Cooldown
  /\ animationRef = "null"
  /\ loops = {}
  /\ animCleanup = FALSE
  /\ fetches = <<>>
  /\ timers = {}
  /\ pending = {}
  /\ mark = NoMark

fixed == <<path, call, variant, preferredMode, clicks>>

\* Date.now() advances; it is read only to compare it with lastObstacleTime, so
\* the clock is left alone once the cooldown has run out
Tick ==
  /\ Idle
  /\ now < MaxNow
  /\ now - lastObstacleTime < Cooldown
  /\ now' = now + TickMs
  /\ UNCHANGED <<fixed, obstacleDetected, isPathComplete, obstacles, loadPending, loaded,
                 routes, currentPathIndex, pathProgress, currentPosition, isMoving,
                 isCalculating, isRerouting, lastObstacleTime, animationRef, loops,
                 animCleanup, fetches, timers, pending, mark>>

\* loadPathData after await findPath(source, destination)
LoadComplete ==
  /\ Idle
  /\ \E mode \in loadPending, rs \in RouteSets :
       /\ loadPending' = loadPending \ {mode}
       /\ routes' = rs
       /\ currentPathIndex' =
            IF variant = "preferred" /\ findIndex(rs, mode) >= 0
            THEN findIndex(rs, mode)
            ELSE currentPathIndex
  /\ loaded' = TRUE
  /\ currentPosition' = sourceLocation
  /\ isCalculating' = FALSE
  /\ timers' = timers \cup {[kind |-> "move"]}
  /\ mark' = IF mark.stage = "mode" THEN mark ELSE NoMark
  /\ UNCHANGED <<fixed, obstacleDetected, isPathComplete, obstacles, pathProgress,
                 isMoving, isRerouting, lastObstacleTime, now, animationRef, loops,
                 animCleanup, fetches>>
  /\ Commit

\* setTimeout(() => setIsMoving(true)) of loadPathData and of handleObstacle
MoveTimer ==
  /\ Idle
  /\ [kind |-> "move"] \in timers
  /\ timers' = timers \ {[kind |-> "move"]}
  /\ isMoving' = TRUE
  /\ UNCHANGED <<fixed, obstacleDetected, isPathComplete, obstacles, loadPending, loaded,
                 routes, currentPathIndex, pathProgress, currentPosition, isCalculating,
                 isRerouting, lastObstacleTime, now, animationRef, loops, animCleanup,
                 fetches, mark>>
  /\ Commit

\* the parent page: handleObstacleDetected
ObstacleDetected ==
  /\ Idle
  /\ ~obstacleDetected
  /\ ~isPathComplete
  /\ obstacles < MaxObstacles
  /\ obstacleDetected' = TRUE
  /\ obstacles' = obstacles + 1
  /\ UNCHANGED <<fixed, isPathComplete, loadPending, loaded, routes, currentPathIndex,
                 pathProgress, currentPosition, isMoving, isCalculating, isRerouting,
                 lastObstacleTime, now, animationRef, loops, animCleanup, fetches,
                 timers, mark>>
  /\ Commit

\* the preferred-route effect
PreferredRouteEffect ==
  /\ Runs("preferred")
  /\ currentPathIndex' =
       IF loaded /\ Len(routes) > 0 /\ findIndex(routes, preferredMode) >= 0
       THEN findIndex(routes, preferredMode)
       ELSE currentPathIndex
  /\ UNCHANGED <<fixed, obstacleDetected, isPathComplete, obstacles, loadPending, loaded,
                 routes, pathProgress, currentPosition, isMoving, isCalculating,
                 isRerouting, lastObstacleTime, now, animationRef, loops, animCleanup,
                 fetches, timers, mark>>
  /\ CommitEffect("preferred")

\* the animation effect: the clean-up of its last run, then its body
AnimationEffect ==
  /\ Runs("animation")
  /\ LET kept == IF animCleanup /\ animationRef \notin {"null", "stale"}
                 THEN Cancelled(animationRef) ELSE loops
         id == FreshId(kept)
         starts == loaded /\ Len(routes) > 0 /\ isMoving /\ ~isCalculating
                   /\ currentPathIndex < Len(routes)
     IN  IF starts
         THEN /\ loops' = kept \cup {[id |-> id, owner |-> "effect", last |-> -1,
                                     geometry |-> routes[currentPathIndex + 1].geometry]}
              /\ animationRef' = id
              /\ animCleanup' = TRUE
         ELSE /\ loops' = kept
              /\ animationRef' = IF animCleanup THEN StaleIfLive(animationRef)
                                 ELSE animationRef
              /\ animCleanup' = FALSE
  /\ UNCHANGED <<fixed, obstacleDetected, isPathComplete, obstacles, loadPending, loaded,
                 routes, currentPathIndex, pathProgress, currentPosition, isMoving,
                 isCalculating, isRerouting, lastObstacleTime, now, fetches, timers, mark>>
  /\ CommitEffect("animation")

\* one requestAnimationFrame callback of a loop: animate
Frame ==
  /\ Idle
  /\ UNCHANGED <<fixed, obstacleDetected, obstacles, loadPending, loaded, routes,
                 currentPathIndex, isMoving, isCalculating, isRerouting, lastObstacleTime,
                 now, animCleanup, fetches, timers>>
  /\ \E l \in loops :
       IF l.last = -2
       THEN \* the resume loop's first callback takes startTime and requests animate
            /\ loops' = (loops \ {l}) \cup {[l EXCEPT !.last = -1]}
            /\ animationRef' = l.id
            /\ UNCHANGED <<pathProgress, currentPosition, isPathComplete, mark>>
            /\ Commit
       ELSE \E n \in Progresses :
            /\ n = (IF l.last = -1 THEN 0 ELSE Min(l.last + FrameStep, ProgDen))
            /\ pathProgress' = n
            /\ LET r == getPointAlongPath(l.geometry, n)
                   writes == Len(l.geometry) > 1
                   threw == writes /\ r.kind # "LatLng"
               IN  /\ currentPosition' = IF writes /\ ~threw THEN r.point ELSE currentPosition
                   /\ mark' = IF writes /\ ~threw THEN Wrote(mark, r.point, l.geometry) ELSE mark
                   /\ IF threw
                      THEN /\ loops' = loops \ {l}
                           /\ animationRef' = IF animationRef = l.id THEN "stale" ELSE animationRef
                           /\ UNCHANGED isPathComplete
                      ELSE IF n < ProgDen
                      THEN /\ loops' = (loops \ {l}) \cup {[l EXCEPT !.last = n]}
                           /\ animationRef' = l.id
                           /\ UNCHANGED isPathComplete
                      ELSE /\ loops' = loops \ {l}
                           /\ animationRef' = IF animationRef = l.id THEN "stale" ELSE animationRef
                           /\ isPathComplete' = TRUE
                   /\ IF writes /\ ~threw THEN CommitWrite ELSE Commit

\* ------------------------------------------------------------- obstacles
\* what handleObstacle decides: the index of the route to switch to, or
\* Fetch to await findAlternativeRoute
Fetch == -1

Decisions ==
  LET current == routes[currentPathIndex + 1]
      flight == findIndex(routes, "flight")
      driving == findIndex(routes, "driving")
      other == findIndexOther(routes, "driving", currentPathIndex)
  IN  IF variant = "basic"
      THEN IF Len(routes) > 1 THEN {(currentPathIndex + 1) % Len(routes)} ELSE {Fetch}
      ELSE IF variant = "preferred"
      THEN IF current.transportMode = "flight" THEN {Fetch}
           ELSE IF flight >= 0 THEN {flight, Fetch}
           ELSE {Fetch}
      ELSE IF current.transportMode = "flight"
           THEN IF driving >= 0 THEN {driving} ELSE {Fetch}
           ELSE IF Len(routes) > 1
           THEN IF flight >= 0 /\ currentPathIndex # flight THEN {flight}
                ELSE IF other >= 0 THEN {other}
                ELSE {Fetch}
           ELSE {Fetch}

\* animationRef.current after handleObstacle cancelled the frame it names
RefAfterCancel ==
  IF animationRef = "null" THEN "null"
  ELSE IF variant = "preferred" THEN "null"
  ELSE "stale"

\* the timer of the finally block
ResumeTimerOf(geometry) ==
  IF variant = "preferred" THEN [kind |-> "resume", geometry |-> geometry]
  ELSE [kind |-> "move"]

\* the obstacle effect without the test of lastObstacleTime
ObstacleEffectNoCooldown ==
  /\ Runs("obstacle")
  /\ IF ~obstacleDetected \/ ~loaded \/ currentPosition = Null
        \/ (variant # "basic" /\ isRerouting)
     THEN UNCHANGED <<obstacleDetected, currentPathIndex, isCalculating, isRerouting,
                      lastObstacleTime, animationRef, loops, fetches, timers, mark>>
     ELSE /\ lastObstacleTime' = IF variant = "basic" THEN lastObstacleTime ELSE now
          /\ loops' = Cancelled(animationRef)
          /\ animationRef' = RefAfterCancel
          /\ IF currentPathIndex >= Len(routes)
             THEN \* routes[currentPathIndex] is undefined: caught, finally
                  /\ obstacleDetected' = FALSE
                  /\ isCalculating' = FALSE
                  /\ timers' = timers \cup {ResumeTimerOf(<<>>)}
                  /\ UNCHANGED <<currentPathIndex, isRerouting, fetches, mark>>
             ELSE \E d \in Decisions :
                  IF d = Fetch
                  THEN /\ isCalculating' = TRUE
                       /\ isRerouting' = (variant # "basic")
                       /\ fetches' = Append(fetches,
                            [index |-> currentPathIndex, len |-> Len(routes),
                             position |-> currentPosition,
                             geometry |-> routes[currentPathIndex + 1].geometry])
                       /\ mark' = Handling
                       /\ UNCHANGED <<obstacleDetected, currentPathIndex, timers>>
                  ELSE /\ currentPathIndex' = d
                       /\ isCalculating' = FALSE
                       /\ obstacleDetected' = FALSE
                       /\ timers' = timers \cup
                            {ResumeTimerOf(routes[currentPathIndex + 1].geometry)}
                       /\ mark' = Rerouted(Handling, FALSE)
                       /\ UNCHANGED <<isRerouting, fetches>>
  /\ UNCHANGED <<fixed, isPathComplete, obstacles, loadPending, loaded, routes,
                 pathProgress, currentPosition, isMoving, now, animCleanup>>
  /\ CommitEffect("obstacle")

\* the obstacle effect, with handleObstacle up to its first await
ObstacleEffect ==
  /\ Runs("obstacle")
  /\ IF ~obstacleDetected \/ ~loaded \/ currentPosition = Null
        \/ (variant # "basic" /\ isRerouting)
     THEN UNCHANGED <<obstacleDetected, currentPathIndex, isCalculating, isRerouting,
                      lastObstacleTime, animationRef, loops, fetches, timers, mark>>
     ELSE IF variant # "basic" /\ now - lastObstacleTime < Cooldown
     THEN /\ obstacleDetected' = FALSE
          /\ UNCHANGED <<currentPathIndex, isCalculating, isRerouting, lastObstacleTime,
                         animationRef, loops, fetches, timers, mark>>
     ELSE /\ lastObstacleTime' = IF variant = "basic" THEN lastObstacleTime ELSE now
          /\ loops' = Cancelled(animationRef)
          /\ animationRef' = RefAfterCancel
          /\ IF currentPathIndex >= Len(routes)
             THEN \* routes[currentPathIndex] is undefined: caught, finally
                  /\ obstacleDetected' = FALSE
                  /\ isCalculating' = FALSE
                  /\ timers' = timers \cup {ResumeTimerOf(<<>>)}
                  /\ UNCHANGED <<currentPathIndex, isRerouting, fetches, mark>>
             ELSE \E d \in Decisions :
                  IF d = Fetch
                  THEN /\ isCalculating' = TRUE
                       /\ isRerouting' = (variant # "basic")
                       /\ fetches' = Append(fetches,
                            [index |-> currentPathIndex, len |-> Len(routes),
                             position |-> currentPosition,
                             geometry |-> routes[currentPathIndex + 1].geometry])
                       /\ mark' = Handling
                       /\ UNCHANGED <<obstacleDetected, currentPathIndex, timers>>
                  ELSE /\ currentPathIndex' = d
                       /\ isCalculating' = FALSE
                       /\ obstacleDetected' = FALSE
                       /\ timers' = timers \cup
                            {ResumeTimerOf(routes[currentPathIndex + 1].geometry)}
                       /\ mark' = Rerouted(Handling, FALSE)
                       /\ UNCHANGED <<isRerouting, fetches>>
  /\ UNCHANGED <<fixed, isPathComplete, obstacles, loadPending, loaded, routes,
                 pathProgress, currentPosition, isMoving, now, animCleanup>>
  /\ CommitEffect("obstacle")

\* handleObstacle after await findAlternativeRoute with a finally block that
\* lacks setIsCalculating(false)
AlternativeArrivesStillCalculating ==
  /\ Idle
  /\ fetches # <<>>
  /\ LET f == Head(fetches)
     IN  /\ \E alternativeRoute \in Alternatives(f.position) :
              routes' = IF variant = "basic"
                        THEN [routes EXCEPT ![f.index + 1] = alternativeRoute]
                        ELSE Append(routes, alternativeRoute)
         /\ currentPathIndex' =
              IF variant = "basic" THEN currentPathIndex
              ELSE IF variant = "preferred" THEN f.len
              ELSE Len(routes)
         /\ timers' = timers \cup {ResumeTimerOf(f.geometry)}
         /\ mark' = Rerouted(HandlingFrom(f.position), variant # "basic")
  /\ fetches' = Tail(fetches)
  /\ isRerouting' = FALSE
  /\ obstacleDetected' = FALSE
  /\ UNCHANGED <<fixed, isPathComplete, obstacles, loadPending, loaded, pathProgress,
                 currentPosition, isMoving, isCalculating, lastObstacleTime, now,
                 animationRef, loops, animCleanup>>
  /\ Commit

\* handleObstacle after await findAlternativeRoute, with its finally block
AlternativeArrives ==
  /\ Idle
  /\ fetches # <<>>
  /\ LET f == Head(fetches)
     IN  /\ \E alternativeRoute \in Alternatives(f.position) :
              routes' = IF variant = "basic"
                        THEN [routes EXCEPT ![f.index + 1] = alternativeRoute]
                        ELSE Append(routes, alternativeRoute)
         /\ currentPathIndex' =
              IF variant = "basic" THEN currentPathIndex
              ELSE IF variant = "preferred" THEN f.len
              ELSE Len(routes)
         /\ timers' = timers \cup {ResumeTimerOf(f.geometry)}
         /\ mark' = Rerouted(HandlingFrom(f.position), variant # "basic")
  /\ fetches' = Tail(fetches)
  /\ isCalculating' = FALSE
  /\ isRerouting' = FALSE
  /\ obstacleDetected' = FALSE
  /\ UNCHANGED <<fixed, isPathComplete, obstacles, loadPending, loaded, pathProgress,
                 currentPosition, isMoving, lastObstacleTime, now, animationRef, loops,
                 animCleanup>>
  /\ Commit

\* the timer of the finally block of the preferred-mode component
ResumeTimer ==
  /\ Idle
  /\ \E t \in timers :
       /\ t.kind = "resume"
       /\ timers' = timers \ {t}
       /\ IF animationRef = "null"
          THEN /\ loops' = loops \cup {[id |-> NewLoopId, owner |-> "resume", last |-> -2,
                                        geometry |-> t.geometry]}
               /\ animationRef' = NewLoopId
          ELSE UNCHANGED <<loops, animationRef>>
  /\ isMoving' = TRUE
  /\ pathProgress' = 0
  /\ UNCHANGED <<fixed, obstacleDetected, isPathComplete, obstacles, loadPending, loaded,
                 routes, currentPathIndex, currentPosition, isCalculating, isRerouting,
                 lastObstacleTime, now, animCleanup, fetches, mark>>
  /\ Commit

\* ------------------------------------------------------------- the page
\* the page renders again without a change of the props' values: the alert is
\* closed (handleCloseAlert), the obstacle history is toggled
PageRerender ==
  /\ Idle
  /\ clicks < MaxClicks
  /\ clicks' = clicks + 1
  /\ pending' = pending \cup CallbackEffects
  /\ UNCHANGED <<path, call, variant, preferredMode, obstacleDetected, isPathComplete,
                 obstacles, loadPending, loaded, routes, currentPathIndex, pathProgress,
                 currentPosition, isMoving, isCalculating, isRerouting, lastObstacleTime,
                 now, animationRef, loops, animCleanup, fetches, timers, mark>>

\* the page: handleTransportModeChange(mode)
ChangePreferredMode ==
  /\ Idle
  /\ variant = "preferred"
  /\ clicks < MaxClicks
  /\ clicks' = clicks + 1
  /\ preferredMode' = IF preferredMode = "driving" THEN "flight" ELSE "driving"
  /\ mark' = IF loaded THEN ModeChanged ELSE mark
  /\ UNCHANGED <<path, call, variant, obstacleDetected, isPathComplete, obstacles,
                 loadPending, loaded, routes, currentPathIndex, pathProgress,
                 currentPosition, isMoving, isCalculating, isRerouting, lastObstacleTime,
                 now, animationRef, loops, animCleanup, fetches, timers>>
  /\ Commit

\* the buttons under "Available Routes": onClick={() => setCurrentPathIndex(index)}
SelectRoute ==
  /\ Idle
  /\ variant # "basic"
  /\ clicks < MaxClicks
  /\ loaded /\ Len(routes) > 1
  /\ clicks' = clicks + 1
  /\ \E index \in 0..(Len(routes) - 1) :
       /\ index # currentPathIndex
       /\ currentPathIndex' = index
  /\ UNCHANGED <<path, call, variant, preferredMode, obstacleDetected, isPathComplete,
                 obstacles, loadPending, loaded, routes, pathProgress, currentPosition,
                 isMoving, isCalculating, isRerouting, lastObstacleTime, now,
                 animationRef, loops, animCleanup, fetches, timers, mark>>
  /\ Commit

\* the route-info effect: onRouteInfoUpdate sets routeInfo of the page to a new
\* object, so the page renders again with new callbacks
RouteInfoEffect ==
  /\ Runs("routeInfo")
  /\ pending' = (pending \ {"routeInfo"}) \cup
       (IF loaded /\ Len(routes) > 0 /\ currentPathIndex < Len(routes)
           /\ currentPosition # Null
        THEN CallbackEffects \ {"routeInfo"} ELSE {})
  /\ UNCHANGED <<fixed, obstacleDetected, isPathComplete, obstacles, loadPending, loaded,
                 routes, currentPathIndex, pathProgress, currentPosition, isMoving,
                 isCalculating, isRerouting, lastObstacleTime, now, animationRef, loops,
                 animCleanup, fetches, timers, mark>>

\* the load effect of the preferred-mode component, up to await findPath
LoadEffect ==
  /\ Runs("load")
  /\ isCalculating' = TRUE
  /\ loadPending' = loadPending \cup {preferredMode}
  /\ UNCHANGED <<fixed, obstacleDetected, isPathComplete, obstacles, loaded, routes,
                 currentPathIndex, pathProgress, currentPosition, isMoving, isRerouting,
                 lastObstacleTime, now, animationRef, loops, animCleanup, fetches,
                 timers, mark>>
  /\ CommitEffect("load")

Next ==
  \/ Tick
  \/ LoadComplete
  \/ MoveTimer
  \/ ObstacleDetected
  \/ PreferredRouteEffect
  \/ AnimationEffect
  \/ Frame
  \/ ObstacleEffect
  \/ AlternativeArrives
  \/ ResumeTimer
  \/ PageRerender
  \/ ChangePreferredMode
  \/ SelectRoute
  \/ RouteInfoEffect
  \/ LoadEffect

Spec == Init /\ [][Next]_vars

\* ------------------------------------------------------------- rerouting
\* the step in which handleObstacle continues after findAlternativeRoute
AlternativeObtained == Len(fetches') < Len(fetches)

\* C8: whenever obstacle handling obtains an alternative route from
\* findAlternativeRoute, the route is appended at the end of routeData.routes:
\* the list grows by exactly one and every route present before stays unchanged
\* at its index
C8_AlternativeAppended ==
  [][AlternativeObtained =>
       /\ Len(routes') = Len(routes) + 1
       /\ \A i \in 1..Len(routes) : routes'[i] = routes[i]]_vars

\* C9: after a reroute that appended an alternative route has completed and
\* every state update and effect it triggered has run, currentPathIndex is the
\* index of the appended route, the last index of routeData.routes
C9_IndexOfAppended ==
  (mark.stage = "rerouted" /\ mark.appended /\ Idle)
    => currentPathIndex = Len(routes) - 1

\* the largest distance between two consecutive points of a route
Spacing(geometry) ==
  CHOOSE d \in {segmentLengths(geometry)[i] : i \in 1..(Len(geometry) - 1)} :
    \A i \in 1..(Len(geometry) - 1) : segmentLengths(geometry)[i] <= d

\* C10: after a reroute onto a non-degenerate route, the first position written
\* is within one path-point spacing of the position held at the moment of the
\* reroute
C10_ContinuesNearby ==
  (mark.stage = "rerouted" /\ mark.written # Null /\ PositiveSegments(mark.route))
    => distanceTo(mark.written, mark.positionBefore) <= Spacing(mark.route)

\* ---------------------------------------------------- choice of the route
\* the obstacle effect is about to run and passes its guards: handleObstacle
\* starts in this step
HandlesObstacle ==
  /\ Runs("obstacle")
  /\ obstacleDetected /\ loaded /\ currentPosition # Null
  /\ variant # "basic" => (~isRerouting /\ now - lastObstacleTime >= Cooldown)
  /\ currentPathIndex < Len(routes)

ActiveMode == routes[currentPathIndex + 1].transportMode

\* C11: when an obstacle is handled while the active route is a flight route and
\* a driving route is in routeData.routes, the active index switches to an
\* existing driving route and no alternative is fetched or appended
C11_FlightSwitchesToDriving ==
  [][(HandlesObstacle /\ ActiveMode = "flight" /\ findIndex(routes, "driving") >= 0)
       => /\ routes' = routes
          /\ fetches' = fetches
          /\ ActiveMode' = "driving"]_vars

\* C12: when an obstacle is handled while the active route is a driving route
\* and another driving route is in routeData.routes, the active index switches
\* to an existing driving route and the set of routes does not grow
C12_DrivingSwitchesToDriving ==
  [][(HandlesObstacle /\ ActiveMode = "driving"
        /\ findIndexOther(routes, "driving", currentPathIndex) >= 0)
       => /\ routes' = routes
          /\ fetches' = fetches
          /\ currentPathIndex' # currentPathIndex
          /\ ActiveMode' = "driving"]_vars

\* ------------------------------------------------------- preferred mode
\* the index the specification selects: the first route of the preferred mode,
\* the first route when none has that mode
PreferredIndex(rs, mode) == IF findIndex(rs, mode) >= 0 THEN findIndex(rs, mode) ELSE 0

\* the preferred-route effect is about to run on a loaded RouteSet: it runs
\* after every load and after every change of preferredMode
SelectsPreferred == Runs("preferred") /\ loaded /\ Len(routes) > 0

\* C13: whenever a RouteSet is loaded or preferredMode changes, the active
\* index becomes the index of the first route whose transportMode is
\* preferredMode, and 0 when no route has that mode
C13_PreferredIndex ==
  [][SelectsPreferred => currentPathIndex' = PreferredIndex(routes, preferredMode)]_vars

\* C14: changing preferredMode while a RouteSet is loaded does not restart the
\* animation: as long as no obstacle is handled, progress is not smaller than it
\* was when the mode was changed
C14_ProgressCarriesOver ==
  mark.stage = "mode" => pathProgress >= mark.progressBefore

\* ----------------------------------------------------------- concurrency
\* C15: obstacle handling is serialized: handleObstacle never starts while a
\* findAlternativeRoute call of an earlier handleObstacle is outstanding
C15_Serialized == HandlesObstacle => fetches = <<>>

NextLive ==
  \/ LoadComplete
  \/ MoveTimer
  \/ RouteInfoEffect
  \/ PreferredRouteEffect
  \/ LoadEffect
  \/ AnimationEffect
  \/ ObstacleEffect
  \/ Frame
  \/ PageRerender
  \/ ChangePreferredMode
  \/ SelectRoute

\* a frame is requested and the browser is free to deliver it: the enabling
\* condition of Frame
FrameDue == Idle /\ loops # {}

\* weak fairness of every scheduled step; for Frame it is written out with
\* FrameDue as the enabling condition
Scheduled ==
  /\ WF_vars(LoadComplete)
  /\ WF_vars(MoveTimer)
  /\ WF_vars(RouteInfoEffect)
  /\ WF_vars(PreferredRouteEffect)
  /\ WF_vars(LoadEffect)
  /\ WF_vars(AnimationEffect)
  /\ WF_vars(ObstacleEffect)
  /\ ([]<>~FrameDue \/ []<><<Frame>>_vars)

SpecLive == Init /\ [][NextLive]_vars /\ Scheduled

\* C17: without obstacle events, with the frames delivered, progress reaches 1
\* and onPathComplete is invoked: the session eventually is complete
C17_Completes == <>isPathComplete

\* ------------------------------------------------------------ pathFinding
\* Routes here carry what the properties read: distance, duration (an exact
\* fraction of seconds), the segments' distances and durations, the mode, and
\* which function built the route (by).
FracAdd(f, g) == Frac(f[1] * g[2] + g[1] * f[2], f[2] * g[2])

RECURSIVE FracSum(_)
FracSum(s) == IF s = <<>> THEN <<0, 1>> ELSE FracAdd(Head(s), FracSum(Tail(s)))

MaxDraw == 1      \* Math.random() outcomes drawn per call: 0..MaxDraw

Draws == 0..MaxDraw

\* Haversine distance, here the fixed-point planar distance
calculateDistance(a, b) == distanceTo(a, b)

\* the table of known places, and the hash of any other name
Locations == {"New York", "Boston", "Springfield"}

getCoordinatesForLocation(location) ==
  IF location = "New York" THEN Pt(0, 0)
  ELSE IF location = "Boston" THEN Pt(1, 1)
  ELSE Pt(1, 0)

flightRoute(sourceCoords, destCoords) ==
  LET distance == calculateDistance(sourceCoords, destCoords)
      duration == Frac(distance, 222)
  IN  [distance |-> distance, duration |-> duration,
       segments |-> <<[distance |-> distance, duration |-> duration]>>,
       transportMode |-> "flight", by |-> "flight"]

\* count points between start and end, at i/(count + 1) of the way, each moved
\* by the draw (in units of 1/(count + 1) of a degree of latitude)
generateRandomWaypoints(start, end, count, draw) ==
  [i \in 1..count |->
     LatLng(start.lat * end.den * (count + 1)
              + (end.lat * start.den - start.lat * end.den) * i
              + draw * start.den * end.den,
            start.lng * end.den * (count + 1)
              + (end.lng * start.den - start.lng * end.den) * i,
            start.den * end.den * (count + 1))]

\* the loop that builds one segment per pair of consecutive points
segmentsBetween(allPoints) ==
  [i \in 1..(Len(allPoints) - 1) |->
     LET d == calculateDistance(allPoints[i], allPoints[i + 1])
     IN  [distance |-> d, duration |-> Frac(d, 10)]]

\* segments.reduce(...) over distance and over duration
routeOver(allPoints, by) ==
  LET segments == segmentsBetween(allPoints)
  IN  [distance |-> SeqSum([i \in 1..Len(segments) |-> segments[i].distance]),
       duration |-> FracSum([i \in 1..Len(segments) |-> segments[i].duration]),
       segments |-> segments, transportMode |-> "driving", by |-> by]

\* routes.sort((a, b) => a.duration - b.duration): stable
RECURSIVE InsertByDuration(_, _)
InsertByDuration(r, s) ==
  IF s = <<>> THEN <<r>>
  ELSE IF FracLeq(Head(s).duration, r.duration)
       THEN <<Head(s)>> \o InsertByDuration(r, Tail(s))
       ELSE <<r>> \o s

RECURSIVE SortByDuration(_)
SortByDuration(s) ==
  IF s = <<>> THEN <<>>
  ELSE InsertByDuration(s[Len(s)], SortByDuration(SubSeq(s, 1, Len(s) - 1)))

generateSimulatedRouteData(source, destination, draws) ==
  LET sourceCoords == getCoordinatesForLocation(source)
      destCoords == getCoordinatesForLocation(destination)
      simulated ==
        [index \in 1..3 |->
           routeOver(<<sourceCoords>>
                       \o generateRandomWaypoints(sourceCoords, destCoords,
                                                  3 + (index - 1), draws[index])
                       \o <<destCoords>>,
                     "simulated")]
  IN  [routes |-> SortByDuration(simulated \o <<flightRoute(sourceCoords, destCoords)>>),
       sourceLocation |-> sourceCoords, destinationLocation |-> destCoords]

generateFallbackAlternativeRoute(currentRoute, position, destination, draw) ==
  routeOver(<<position>> \o generateRandomWaypoints(position, destination, 2, draw)
              \o <<destination>>,
            "fallback")

\* ------------------------------------------------- the routing service
\* what the geocoding request can end in: the fetch rejects, the status is not
\* ok, the answer is empty, or it holds a place
GeocodeAnswers ==
  {[kind |-> k, point |-> Null] : k \in {"rejected", "notOk", "empty"}}
    \cup {[kind |-> "found", point |-> Pt(0, 1)]}

\* geocodeLocation catches its own errors: coordinates or null
geocodeLocation(answer) == IF answer.kind = "found" THEN answer.point ELSE Null

\* the geocoding request itself failed (geocodeLocation logged "Geocoding error")
GeocodingError(answer) == answer.kind \in {"rejected", "notOk"}

\* routes of the service: their distance and duration are the service's, the
\* steps of the first leg become the segments; a route without legs makes the
\* mapping throw a TypeError
NoLegs == [distance |-> 20, duration |-> <<4, 1>>, legs |-> FALSE, steps |-> <<>>]

OsrmRoute1 ==
  [distance |-> 20, duration |-> <<4, 1>>, legs |-> TRUE,
   steps |-> <<[distance |-> 20, duration |-> <<4, 1>>]>>]

OsrmRoute2 ==
  [distance |-> 30, duration |-> <<7, 1>>, legs |-> TRUE,
   steps |-> <<[distance |-> 10, duration |-> <<2, 1>>],
               [distance |-> 20, duration |-> <<5, 1>>]>>]

\* what the routing request can end in: the fetch rejects, the status is not
\* ok, the body is not JSON, the code is not 'Ok', the code is 'Ok' without a
\* routes array, or the code is 'Ok' with routes
RouteAnswers ==
  {[kind |-> k, routes |-> <<>>] :
     k \in {"rejected", "notOk", "badJson", "error", "noRoutes"}}
    \cup {[kind |-> "ok", routes |-> rs] :
            rs \in {<<>>, <<OsrmRoute1>>, <<OsrmRoute1, OsrmRoute2>>,
                    <<OsrmRoute1, NoLegs>>}}

fromOsrm(route) ==
  [distance |-> route.distance, duration |-> route.duration,
   segments |-> route.steps, transportMode |-> "driving", by |-> "osrm"]

\* how a call ends
Resolved(value) == [state |-> "resolved", value |-> value]
Rejected == [state |-> "rejected", value |-> Null]

catchRethrows(fallback) == Rejected

\* catch (error) { ...; return <the synthesized result> }
catchError(fallback) == Resolved(fallback)

\* the try block of findPath throws
findPathThrows(answer) ==
  \/ answer.kind # "ok"
  \/ \E i \in 1..Len(answer.routes) : ~answer.routes[i].legs

findPath(source, destination, sourceCoords, destCoords, answer, draws) ==
  LET finalSourceCoords ==
        IF sourceCoords # Null THEN sourceCoords ELSE getCoordinatesForLocation(source)
      finalDestCoords ==
        IF destCoords # Null THEN destCoords ELSE getCoordinatesForLocation(destination)
  IN  IF findPathThrows(answer)
      THEN catchError(generateSimulatedRouteData(source, destination, draws))
      ELSE Resolved([routes |-> [i \in 1..Len(answer.routes) |-> fromOsrm(answer.routes[i])]
                                  \o <<flightRoute(finalSourceCoords, finalDestCoords)>>,
                     sourceLocation |-> finalSourceCoords,
                     destinationLocation |-> finalDestCoords])

\* the route of data.routes whose distance differs most from the current one
\* (0-based); the ratios |d - current| / current are compared by their
\* numerators, the current distance being positive
RECURSIVE mostDifferent(_, _, _, _, _)
mostDifferent(rs, currentDistance, i, maxDifference, selectedRouteIndex) ==
  IF i > Len(rs) THEN selectedRouteIndex
  ELSE LET difference == Abs(rs[i].distance - currentDistance)
       IN  IF difference > maxDifference
           THEN mostDifferent(rs, currentDistance, i + 1, difference, i - 1)
           ELSE mostDifferent(rs, currentDistance, i + 1, maxDifference, selectedRouteIndex)

\* the try block of findAlternativeRoute throws: a failed request, no routes,
\* currentRoute.distance of undefined, or a selected route without legs
alternativeThrows(currentRoute, answer) ==
  \/ answer.kind # "ok"
  \/ Len(answer.routes) = 0
  \/ Len(answer.routes) > 1 /\ currentRoute = Undefined
  \/ LET selected == IF Len(answer.routes) > 1
                     THEN mostDifferent(answer.routes, currentRoute.distance, 1, 0, 0)
                     ELSE 0
     IN  ~answer.routes[selected + 1].legs

findAlternativeRoute(currentRoute, position, destination, answer, draw) ==
  IF alternativeThrows(currentRoute, answer)
  THEN catchError(generateFallbackAlternativeRoute(currentRoute, position, destination, draw))
  ELSE LET selected == IF Len(answer.routes) > 1
                       THEN mostDifferent(answer.routes, currentRoute.distance, 1, 0, 0)
                       ELSE 0
       IN  Resolved(fromOsrm(answer.routes[selected + 1]))

\* ------------------------------------------------- the mock path finding
MockSegment(distance, duration) == [distance |-> distance, duration |-> <<duration, 1>>]

MockRoute(distance, duration, segments) ==
  [distance |-> distance, duration |-> <<duration, 1>>, segments |-> segments,
   transportMode |-> "driving", by |-> "mock"]

\* the routes of the mock findPath
MockRoutes ==
  << MockRoute(5000, 1200, <<MockSegment(2000, 500), MockSegment(3000, 700)>>),
     MockRoute(5500, 1300, <<MockSegment(2500, 600), MockSegment(3000, 700)>>),
     MockRoute(6000, 1500, <<MockSegment(3000, 800), MockSegment(3000, 700)>>) >>

mockFindAlternativeRoute(currentRoute) ==
  [distance |-> currentRoute.distance + 300,
   duration |-> FracAdd(currentRoute.duration, <<120, 1>>),
   segments |-> << MockSegment(1500, 400),
                   [distance |-> currentRoute.distance - 1000,
                    duration |-> FracAdd(currentRoute.duration, <<-200, 1>>)] >>,
   transportMode |-> "driving", by |-> "mock"]

\* ------------------------------------------------- calls of the path finding
\* the routes a component can hold as its current route, and routes[i] of an
\* index outside the array
CurrentRoutes ==
  { fromOsrm(OsrmRoute1), fromOsrm(OsrmRoute2), flightRoute(Pt(0, 0), Pt(1, 1)), Undefined }

Request(op, at) ==
  [op |-> op, at |-> at, source |-> "", destination |-> "", sourceCoords |-> Null,
   destCoords |-> Null, currentRoute |-> Undefined, position |-> Null,
   geocodingFailed |-> FALSE, threw |-> FALSE, result |-> Null]

InitFind ==
  /\ path = <<>>
  /\ call = NoCall
  /\ SessionIdle

CallFindPath ==
  /\ call = NoCall
  /\ \E source \in Locations, destination \in Locations :
       call' = [Request("findPath", "geocodeSource") EXCEPT
                  !.source = source, !.destination = destination]
  /\ UNCHANGED <<path, sessionVars>>

\* await geocodeLocation(source)
GeocodeSource ==
  /\ call.op = "findPath" /\ call.at = "geocodeSource"
  /\ \E answer \in GeocodeAnswers :
       call' = [call EXCEPT !.at = "geocodeDestination",
                            !.sourceCoords = geocodeLocation(answer),
                            !.geocodingFailed = GeocodingError(answer)]
  /\ UNCHANGED <<path, sessionVars>>

\* await geocodeLocation(destination)
GeocodeDestination ==
  /\ call.op = "findPath" /\ call.at = "geocodeDestination"
  /\ \E answer \in GeocodeAnswers :
       call' = [call EXCEPT !.at = "fetch", !.destCoords = geocodeLocation(answer),
                            !.geocodingFailed = @ \/ GeocodingError(answer)]
  /\ UNCHANGED <<path, sessionVars>>

\* await fetch(url) and the rest of findPath
FindPathSettles ==
  /\ call.op = "findPath" /\ call.at = "fetch"
  /\ \E answer \in RouteAnswers, draws \in [1..3 -> Draws] :
       call' = [call EXCEPT
                  !.at = "done",
                  !.threw = findPathThrows(answer),
                  !.result = findPath(call.source, call.destination, call.sourceCoords,
                                      call.destCoords, answer, draws)]
  /\ UNCHANGED <<path, sessionVars>>

CallFindAlternativeRoute ==
  /\ call = NoCall
  /\ \E currentRoute \in CurrentRoutes, position \in GridPoints :
       call' = [Request("findAlternativeRoute", "fetch") EXCEPT
                  !.currentRoute = currentRoute, !.position = position,
                  !.destCoords = destinationLocation]
  /\ UNCHANGED <<path, sessionVars>>

\* await fetch(url) and the rest of findAlternativeRoute
AlternativeSettles ==
  /\ call.op = "findAlternativeRoute" /\ call.at = "fetch"
  /\ \E answer \in RouteAnswers, draw \in Draws :
       call' = [call EXCEPT
                  !.at = "done",
                  !.threw = alternativeThrows(call.currentRoute, answer),
                  !.result = findAlternativeRoute(call.currentRoute, call.position,
                                                  call.destCoords, answer, draw)]
  /\ UNCHANGED <<path, sessionVars>>

CallMockFindAlternativeRoute ==
  /\ call = NoCall
  /\ \E i \in 1..Len(MockRoutes) :
       call' = [Request("mockFindAlternativeRoute", "delay") EXCEPT
                  !.currentRoute = MockRoutes[i]]
  /\ UNCHANGED <<path, sessionVars>>

\* the 800 ms delay ends and the mock returns its route
MockSettles ==
  /\ call.op = "mockFindAlternativeRoute" /\ call.at = "delay"
  /\ call' = [call EXCEPT !.at = "done",
                          !.result = Resolved(mockFindAlternativeRoute(call.currentRoute))]
  /\ UNCHANGED <<path, sessionVars>>

NextFind ==
  \/ CallFindPath
  \/ GeocodeSource
  \/ GeocodeDestination
  \/ FindPathSettles
  \/ CallFindAlternativeRoute
  \/ AlternativeSettles
  \/ CallMockFindAlternativeRoute
  \/ MockSettles

SpecFind == InitFind /\ [][NextFind]_vars

Settled == call.op # "none" /\ call.at = "done"

\* the routes a settled call resolved with
ResultRoutes ==
  IF ~Settled \/ call.result.state # "resolved" THEN {}
  ELSE IF call.op = "findPath"
       THEN {call.result.value.routes[i] : i \in 1..Len(call.result.value.routes)}
       ELSE {call.result.value}

Synthesized == \A r \in ResultRoutes : r.by \in {"simulated", "fallback", "flight"}

C19_TotalsAreSums ==
  \A r \in ResultRoutes :
    (r.by # "osrm" /\ r.segments # <<>>) =>
      /\ r.distance = SeqSum([i \in 1..Len(r.segments) |-> r.segments[i].distance])
      /\ r.duration = FracSum([i \in 1..Len(r.segments) |-> r.segments[i].duration])

\* ------------------------------------------------------------ route index
\* C20: whenever routeData is loaded, currentPathIndex is an index of
\* routeData.routes: 0 <= currentPathIndex < routeData.routes.length
C20_IndexInRange ==
  loaded => (0 <= currentPathIndex /\ currentPathIndex < Len(routes))

\* ------------------------------------------------------------ behaviour
\* C21: while no reroute occurs (no obstacle event was accepted), the progress
\* published by the animation loop stays within [0, 1] and does not decrease
\* from one frame to the next
C21_ProgressMonotone ==
  [][(obstacles = 0 /\ pathProgress' # pathProgress) =>
       (pathProgress < pathProgress' /\ 0 <= pathProgress' /\ pathProgress' <= ProgDen)]_vars

\* the step in which loadPathData continues after findPath
LoadCompletes == Cardinality(loadPending') < Cardinality(loadPending)

\* C22: whenever a load completes (the first one and every reload) the active
\* index is the index of the first route of the preferred mode (0 if there is
\* none, or if the variant has no preferred mode) and progress is 0
C22_LoadStartsSession ==
  [][LoadCompletes =>
       /\ currentPathIndex' = (IF variant = "preferred"
                               THEN PreferredIndex(routes', preferredMode) ELSE 0)
       /\ pathProgress' = 0]_vars

\* ------------------------------------------------- obstacle handling ends
\* the session with obstacle events, page re-renders and changes of the
\* preferred mode, the selected route left alone
NextReroute ==
  \/ Tick
  \/ LoadComplete
  \/ MoveTimer
  \/ ObstacleDetected
  \/ RouteInfoEffect
  \/ PreferredRouteEffect
  \/ LoadEffect
  \/ AnimationEffect
  \/ ObstacleEffect
  \/ AlternativeArrives
  \/ ResumeTimer
  \/ Frame
  \/ PageRerender
  \/ ChangePreferredMode

\* the event loop: a settled promise (findPath, findAlternativeRoute) and an
\* expired timer are not left waiting for ever, whatever effects and frames run
\* in between; effects are weakly fair; frames as in Scheduled
ScheduledReroute ==
  /\ ([]<>(loadPending = {}) \/ []<><<LoadComplete>>_vars)
  /\ ([]<>([kind |-> "move"] \notin timers) \/ []<><<MoveTimer>>_vars)
  /\ ([]<>(fetches = <<>>) \/ []<><<AlternativeArrives>>_vars)
  /\ ([]<>(\A t \in timers : t.kind # "resume") \/ []<><<ResumeTimer>>_vars)
  /\ WF_vars(RouteInfoEffect)
  /\ WF_vars(PreferredRouteEffect)
  /\ WF_vars(LoadEffect)
  /\ WF_vars(AnimationEffect)
  /\ WF_vars(ObstacleEffect)
  /\ ([]<>~FrameDue \/ []<><<Frame>>_vars)

SpecReroute == Init /\ [][NextReroute]_vars /\ ScheduledReroute

\* the obstacle effect is about to run and passes its guards: handleObstacle is
\* called
ObstacleAccepted ==
  /\ Runs("obstacle")
  /\ obstacleDetected /\ loaded /\ currentPosition # Null
  /\ variant # "basic" => (~isRerouting /\ now - lastObstacleTime >= Cooldown)

\* no handling is under way and the animation is on
HandlingDone ==
  /\ ~isCalculating /\ ~isRerouting /\ ~obstacleDetected /\ isMoving
  /\ fetches = <<>>

CooldownVariant == variant \in {"preferred", "cooldown"}

\* the obstacle effect runs with an obstacle event to look at: routeData and
\* currentPosition are there and no rerouting is under way
ObstacleSeen ==
  /\ Runs("obstacle")
  /\ obstacleDetected /\ loaded /\ currentPosition # Null /\ ~isRerouting

\* a step that does what only handleObstacle does
HandlingStep ==
  \/ lastObstacleTime' # lastObstacleTime
  \/ fetches' # fetches /\ Len(fetches') > Len(fetches)
  \/ Runs("obstacle") /\ \/ timers' # timers
                          \/ currentPathIndex' # currentPathIndex
                          \/ loops' # loops
                          \/ isCalculating' # isCalculating
                          \/ isRerouting' # isRerouting

OBSTACLE_COOLDOWN == 5000

\* setTimeout(resolve, 300) of detectObstacle
DetectDelay == 300

DetectStep == 250

DetectMaxNow == 11000

\* the processFrame loops (of one CameraFeed or of several) that call
\* detectObstacle
Callers == {"a", "b"}

\* detectObstacle after its delay, without the test of the cooldown
detectObstacleNoCooldown(last, currentTime, hasObstacle) ==
  [value |-> hasObstacle,
   lastObstacleTime |-> IF hasObstacle THEN currentTime ELSE last]

\* detectObstacle after its delay: last is the module's lastObstacleTime,
\* hasObstacle the outcome of Math.random() < 0.1 (the 2d context of the canvas
\* exists: processFrame has tested it)
detectObstacle(last, currentTime, hasObstacle) ==
  IF currentTime - last < OBSTACLE_COOLDOWN
  THEN [value |-> FALSE, lastObstacleTime |-> last]
  ELSE [value |-> hasObstacle,
        lastObstacleTime |-> IF hasObstacle THEN currentTime ELSE last]

\* no call in flight (due 0), no call has returned; trues, lastTrue and
\* lastValue record the returns, handlings the handlings of the route component
NoDetection ==
  [op |-> "detect", lastObstacleTime |-> 0, due |-> [c \in Callers |-> 0],
   trues |-> 0, lastTrue |-> 0, lastValue |-> "none", handlings |-> 0]

sessionIdle ==
  <<path, variant, preferredMode, clicks, loadPending, routes, currentPathIndex,
    pathProgress, currentPosition, isMoving, isCalculating, isRerouting, animationRef,
    loops, animCleanup, fetches, timers, pending, mark>>

\* the page and the route component mounted, Date.now() past the first window
InitPage ==
  /\ path = <<>>
  /\ variant = "preferred"
  /\ preferredMode = "driving"
  /\ clicks = 0
  /\ obstacleDetected = FALSE
  /\ isPathComplete = FALSE
  /\ obstacles = 0
  /\ loadPending = {}
  /\ loaded = FALSE
  /\ routes = <<>>
  /\ currentPathIndex = 0
  /\ pathProgress = 0
  /\ currentPosition = Null
  /\ isMoving = FALSE
  /\ isCalculating = FALSE
  /\ isRerouting = FALSE
  /\ lastObstacleTime = 0
  /\ now = OBSTACLE_COOLDOWN
  /\ animationRef = "null"
  /\ loops = {}
  /\ animCleanup = FALSE
  /\ fetches = <<>>
  /\ timers = {}
  /\ pending = {}
  /\ mark = NoMark

InitDetect == InitPage /\ call = NoDetection

\* the obstacle effect of the route component is due
ObstacleEffectDue == obstacleDetected /\ loaded

\* time passes; expired timers and due effects run first
DetectTick ==
  /\ now < DetectMaxNow
  /\ \A c \in Callers : call.due[c] = 0 \/ call.due[c] > now
  /\ ~ObstacleEffectDue
  /\ now' = now + DetectStep
  /\ UNCHANGED <<sessionIdle, call, obstacleDetected, isPathComplete, obstacles, loaded,
                 lastObstacleTime>>

\* detectObstacle(canvas) up to its await
CallDetectObstacle ==
  /\ \E c \in Callers :
       /\ call.due[c] = 0
       /\ call' = [call EXCEPT !.due[c] = now + DetectDelay]
  /\ UNCHANGED <<sessionIdle, obstacleDetected, isPathComplete, obstacles, loaded,
                 lastObstacleTime, now>>

\* detectObstacle after its await, and what processFrame does with a true:
\* handleObstacleDetected of the page, as of the page's latest render
DetectObstacleReturns ==
  /\ \E c \in Callers, hasObstacle \in BOOLEAN :
       /\ call.due[c] # 0
       /\ call.due[c] <= now
       /\ LET r == detectObstacle(call.lastObstacleTime, now, hasObstacle)
              accepted == r.value /\ ~obstacleDetected /\ ~isPathComplete
          IN  /\ call' = [call EXCEPT !.due[c] = 0,
                                      !.lastObstacleTime = r.lastObstacleTime,
                                      !.trues = IF r.value THEN @ + 1 ELSE @,
                                      !.lastTrue = IF r.value THEN now ELSE @,
                                      !.lastValue = IF r.value THEN "true" ELSE "false"]
              /\ obstacleDetected' = (obstacleDetected \/ accepted)
              /\ obstacles' = IF accepted THEN obstacles + 1 ELSE obstacles
  /\ UNCHANGED <<sessionIdle, isPathComplete, loaded, lastObstacleTime, now>>

\* the route component has its routeData and its position
DetectRouteLoaded ==
  /\ ~loaded
  /\ loaded' = TRUE
  /\ UNCHANGED <<sessionIdle, call, obstacleDetected, isPathComplete, obstacles,
                 lastObstacleTime, now>>

\* the route component's obstacle effect with its cooldown; a handling is
\* taken as a whole, up to resetObstacleDetected
DetectObstacleEffect ==
  /\ ObstacleEffectDue
  /\ obstacleDetected' = FALSE
  /\ IF now - lastObstacleTime < Cooldown
     THEN UNCHANGED <<lastObstacleTime, call>>
     ELSE /\ lastObstacleTime' = now
          /\ call' = [call EXCEPT !.handlings = @ + 1]
  /\ UNCHANGED <<sessionIdle, isPathComplete, obstacles, loaded, now>>

NextDetect ==
  \/ DetectTick
  \/ CallDetectObstacle
  \/ DetectObstacleReturns
  \/ DetectRouteLoaded
  \/ DetectObstacleEffect

SpecDetect == InitDetect /\ [][NextDetect]_vars

\* a call of detectObstacle returns true in this step
ReturnsTrue == call.op = "detect" /\ call'.trues > call.trues

\* C25: detectObstacle returns true at most once within any 5000 ms: a call that
\* finishes less than 5000 ms after a call has returned true returns false,
\* whichever caller it comes from and whatever else is in flight
C25_OncePerWindow ==
  [][ReturnsTrue => (call.trues = 0 \/ now - call.lastTrue >= OBSTACLE_COOLDOWN)]_vars

\* a call has returned false inside the window of a true return while another
\* call is in flight
C25_Witness ==
  /\ call.op = "detect"
  /\ call.trues = 1
  /\ call.lastValue = "false"
  /\ now - call.lastTrue < OBSTACLE_COOLDOWN
  /\ \E c \in Callers : call.due[c] # 0

\* C28: the page's obstacleCount equals the number of handlings of the route
\* component: once the component has looked at every obstacle the page has
\* counted, each of them has led to a handling, none was dropped by the
\* component's cooldown
C28_CountIsHandlings ==
  (call.op = "detect" /\ ~obstacleDetected) => obstacles = call.handlings

\* ------------------------------------------------------------- camera
\* CameraFeed with its processFrame loops, over detectObstacle and the page
processInterval == 500

CamTick == 100

CamMaxNow == 6200

MaxStarts == 3

\* the camera before the page's timer has switched it on
NoCamera ==
  [op |-> "camera", activated |-> FALSE, isCameraActive |-> FALSE,
   isProcessing |-> FALSE, loops |-> {}, made |-> 0, starts |-> 0, lastStart |-> 0,
   lastObstacleTime |-> 0]

\* a processFrame loop of one run of the processing effect: the values its
\* closure holds (lastProcessTime, isProcessing, and obstacleDetected and
\* isPathComplete inside onObstacleDetected), whether it waits for a frame or
\* for detectObstacle, and whether its effect is the current one
ProcessLoop(id, isProcessing, od, pc) ==
  [id |-> id, lastProcessTime |-> 0, isProcessing |-> isProcessing,
   obstacleDetected |-> od, isPathComplete |-> pc, at |-> "frame", due |-> 0,
   live |-> TRUE]

\* the processing effect after a render: the clean-up of the previous run
\* cancels the frame that run has requested last (a loop inside await
\* detectObstacle has none and goes on afterwards), then a new loop starts
processingEffect(ls, isActive, isProcessing, od, pc, id) ==
  {[l EXCEPT !.live = FALSE] : l \in {k \in ls : ~k.live \/ k.at = "await"}}
    \cup (IF isActive THEN {ProcessLoop(id, isProcessing, od, pc)} ELSE {})

\* the camera c after a render of the page or of CameraFeed, with the loops ls
Rendered(c, ls, od, pc) ==
  [c EXCEPT !.loops = processingEffect(ls, c.isCameraActive, c.isProcessing, od, pc,
                                       c.made),
            !.made = IF c.isCameraActive THEN @ + 1 ELSE @]

InitCamera == InitPage /\ call = NoCamera

\* a detectObstacle whose delay is over
DetectionDue == \E l \in call.loops : l.at = "await" /\ l.due <= now

\* time passes from the moment the page's timer is due; expired timers and due
\* effects run first
CameraTick ==
  /\ now < CamMaxNow
  /\ call.activated
  /\ ~DetectionDue
  /\ ~ObstacleEffectDue
  /\ now' = now + CamTick
  /\ UNCHANGED <<sessionIdle, call, obstacleDetected, isPathComplete, obstacles, loaded,
                 lastObstacleTime>>

\* the page's timer: setIsCameraActive(true)
CameraActivates ==
  /\ ~call.activated
  /\ call' = Rendered([call EXCEPT !.activated = TRUE, !.isCameraActive = TRUE],
                      call.loops, obstacleDetected, isPathComplete)
  /\ UNCHANGED <<sessionIdle, obstacleDetected, isPathComplete, obstacles, loaded,
                 lastObstacleTime, now>>

\* a frame of a processFrame loop that starts a detection, up to await
\* detectObstacle (a frame that starts none changes nothing)
processFrame ==
  /\ call.starts < MaxStarts
  /\ \E l \in call.loops :
       /\ l.at = "frame"
       /\ now - l.lastProcessTime > processInterval
       /\ ~l.isProcessing
       /\ LET started == [l EXCEPT !.lastProcessTime = now, !.at = "await",
                                   !.due = now + DetectDelay]
              ls == (call.loops \ {l}) \cup {started}
              c == [call EXCEPT !.isProcessing = TRUE, !.starts = @ + 1,
                                !.lastStart = now]
          IN  call' = IF call.isProcessing
                      THEN [c EXCEPT !.loops = ls]
                      ELSE Rendered(c, ls, obstacleDetected, isPathComplete)
  /\ UNCHANGED <<sessionIdle, obstacleDetected, isPathComplete, obstacles, loaded,
                 lastObstacleTime, now>>

\* processFrame after await detectObstacle: the callback of its closure
\* (handleObstacleDetected of the render it was taken from),
\* setIsProcessing(false), the next frame requested
DetectionReturns ==
  /\ \E l \in call.loops, hasObstacle \in BOOLEAN :
       /\ l.at = "await"
       /\ l.due <= now
       /\ LET r == detectObstacle(call.lastObstacleTime, now, hasObstacle)
              accepted == r.value /\ ~l.obstacleDetected /\ ~l.isPathComplete
              ls == (call.loops \ {l}) \cup {[l EXCEPT !.at = "frame"]}
              c == [call EXCEPT !.lastObstacleTime = r.lastObstacleTime,
                                !.isProcessing = FALSE]
          IN  /\ obstacleDetected' = (obstacleDetected \/ accepted)
              /\ obstacles' = IF accepted THEN obstacles + 1 ELSE obstacles
              /\ call' = IF accepted \/ call.isProcessing
                         THEN Rendered(c, ls, obstacleDetected', isPathComplete)
                         ELSE [c EXCEPT !.loops = ls]
  /\ UNCHANGED <<sessionIdle, isPathComplete, loaded, lastObstacleTime, now>>

\* the route component has its routeData and its position; its route
\* information makes the page render
RouteLoaded ==
  /\ ~loaded
  /\ loaded' = TRUE
  /\ call' = Rendered(call, call.loops, obstacleDetected, isPathComplete)
  /\ UNCHANGED <<sessionIdle, obstacleDetected, isPathComplete, obstacles,
                 lastObstacleTime, now>>

\* the route component's obstacle effect with its cooldown; a handling is
\* taken as a whole, up to resetObstacleDetected
CameraObstacleEffect ==
  /\ ObstacleEffectDue
  /\ obstacleDetected' = FALSE
  /\ lastObstacleTime' = IF now - lastObstacleTime < Cooldown THEN lastObstacleTime
                         ELSE now
  /\ call' = Rendered(call, call.loops, FALSE, isPathComplete)
  /\ UNCHANGED <<sessionIdle, isPathComplete, obstacles, loaded, now>>

\* onPathComplete: handlePathComplete of the page
handlePathComplete ==
  /\ loaded
  /\ ~isPathComplete
  /\ ~ObstacleEffectDue
  /\ isPathComplete' = TRUE
  /\ call' = Rendered([call EXCEPT !.isCameraActive = FALSE], call.loops,
                      obstacleDetected, TRUE)
  /\ UNCHANGED <<sessionIdle, obstacleDetected, obstacles, loaded, lastObstacleTime, now>>

NextCamera ==
  \/ CameraTick
  \/ CameraActivates
  \/ processFrame
  \/ DetectionReturns
  \/ RouteLoaded
  \/ CameraObstacleEffect
  \/ handlePathComplete

SpecCamera == InitCamera /\ [][NextCamera]_vars

\* a processFrame loop calls detectObstacle in this step
DetectionStarts == call.op = "camera" /\ call'.starts > call.starts

\* C26: a CameraFeed starts no detectObstacle call while another call it
\* started is in flight, and two consecutive starts are more than 500 ms apart
C26_OneAtATime ==
  [][DetectionStarts =>
       /\ \A l \in call.loops : l.at # "await"
       /\ call.starts = 0 \/ now - call.lastStart > processInterval]_vars

\* C27: once the path is complete no obstacle callback is accepted:
\* obstacleDetected does not become true and obstacleCount does not change
C27_NoObstacleAfterComplete ==
  [][isPathComplete => (obstacles' = obstacles /\ (obstacleDetected' => obstacleDetected))]_vars

\* -------------------------------------------------------- round robin
\* the variants of PathVisualization that answer an obstacle with a timer and
\* the next route: the SVG variant ("svg") and part_000 ("timer")
RoundRobinVariants == {"svg", "timer"}

\* paths of generatePaths, routes of findPath
RoundRobinRoutes(v) ==
  IF v = "svg" THEN {<<"direct", "waypoint", "alternative">>}
  ELSE {<<"driving", "flight">>, <<"driving", "driving", "flight">>}

\* what is recorded of the obstacle event the page accepted last: the index
\* at that time, the timers scheduled for it, the changes of the index since
NoEvent == [op |-> "roundRobin", from |-> 0, scheduled |-> 0, advances |-> 0]

InitRoundRobin ==
  /\ path = <<>>
  /\ call = NoEvent
  /\ variant \in RoundRobinVariants
  /\ preferredMode = "driving"
  /\ clicks = 0
  /\ obstacleDetected = FALSE
  /\ isPathComplete = FALSE
  /\ obstacles = 0
  /\ loadPending = {"load"}
  /\ loaded = FALSE
  /\ routes = <<>>
  /\ currentPathIndex = 0
  /\ pathProgress = 0
  /\ currentPosition = Null
  /\ isMoving = FALSE
  /\ isCalculating = TRUE
  /\ isRerouting = FALSE
  /\ lastObstacleTime = 0
  /\ now = 0
  /\ animationRef = "null"
  /\ loops = {}
  /\ animCleanup = FALSE
  /\ fetches = <<>>
  /\ timers = <<>>
  /\ pending = {}
  /\ mark = NoMark

roundRobinIdle ==
  <<path, variant, preferredMode, currentPosition, isRerouting, lastObstacleTime, now,
    animationRef, animCleanup, fetches, mark>>

\* the effects to run after a step: the obstacle effect and the animation
\* effect, by their dependency arrays; both hold a callback of the page
RoundRobinChanged ==
  LET page == \/ obstacleDetected' # obstacleDetected
              \/ isPathComplete' # isPathComplete
              \/ obstacles' # obstacles
              \/ clicks' # clicks
      obstacle == \/ page
                  \/ routes' # routes
                  \/ currentPathIndex' # currentPathIndex
                  \/ variant = "svg" /\ pathProgress' # pathProgress
      animation == \/ page
                   \/ routes' # routes
                   \/ currentPathIndex' # currentPathIndex
                   \/ isMoving' # isMoving
                   \/ isCalculating' # isCalculating
  IN  (IF obstacle THEN {"obstacle"} ELSE {}) \cup
      (IF animation THEN {"animation"} ELSE {})

\* the order of the useEffect calls: the obstacle effect comes first in the SVG
\* variant, last in part_000
RoundRobinRuns(e) ==
  /\ e \in pending
  /\ pending = {"obstacle", "animation"} =>
       e = (IF variant = "svg" THEN "obstacle" ELSE "animation")

\* the load: setPaths / setRoutes, setIsCalculating(false), the timer of
\* setIsMoving(true)
RoundRobinLoad ==
  /\ Idle
  /\ loadPending # {}
  /\ loadPending' = {}
  /\ loaded' = TRUE
  /\ routes' \in RoundRobinRoutes(variant)
  /\ isCalculating' = FALSE
  /\ timers' = Append(timers, [kind |-> "move"])
  /\ UNCHANGED <<roundRobinIdle, call, clicks, obstacleDetected, isPathComplete,
                 obstacles, currentPathIndex, pathProgress, isMoving, loops>>
  /\ pending' = pending \cup RoundRobinChanged

\* a timer of setIsMoving(true) expires; all timers wait 1000 ms, so they expire
\* in the order they were set
RoundRobinMoveTimer ==
  /\ Idle
  /\ timers # <<>>
  /\ Head(timers).kind = "move"
  /\ timers' = Tail(timers)
  /\ isMoving' = TRUE
  /\ UNCHANGED <<roundRobinIdle, call, clicks, obstacleDetected, isPathComplete,
                 obstacles, loadPending, loaded, routes, currentPathIndex, pathProgress,
                 isCalculating, loops>>
  /\ pending' = pending \cup RoundRobinChanged

\* handleObstacleDetected of the page accepts an obstacle
RoundRobinObstacleDetected ==
  /\ Idle
  /\ obstacles < MaxObstacles
  /\ ~obstacleDetected
  /\ ~isPathComplete
  /\ obstacleDetected' = TRUE
  /\ obstacles' = obstacles + 1
  /\ call' = [NoEvent EXCEPT !.from = currentPathIndex]
  /\ UNCHANGED <<roundRobinIdle, clicks, isPathComplete, loadPending, loaded, routes,
                 currentPathIndex, pathProgress, isMoving, isCalculating, loops, timers>>
  /\ pending' = pending \cup RoundRobinChanged

\* the page renders again: the alert is closed
RoundRobinPageRerender ==
  /\ Idle
  /\ clicks < MaxClicks
  /\ clicks' = clicks + 1
  /\ UNCHANGED <<roundRobinIdle, call, obstacleDetected, isPathComplete, obstacles,
                 loadPending, loaded, routes, currentPathIndex, pathProgress, isMoving,
                 isCalculating, loops, timers>>
  /\ pending' = pending \cup RoundRobinChanged

\* the obstacle effect: setIsCalculating(true) and the recalculation timer,
\* which keeps currentPathIndex and pathProgress of this render
RoundRobinObstacleEffect ==
  /\ RoundRobinRuns("obstacle")
  /\ IF obstacleDetected /\ Len(routes) > 0
     THEN /\ isCalculating' = TRUE
          /\ timers' = Append(timers, [kind |-> "recalculate",
                                       currentPathIndex |-> currentPathIndex,
                                       currentProgress |-> pathProgress])
          /\ call' = [call EXCEPT !.scheduled = @ + 1]
     ELSE UNCHANGED <<isCalculating, timers, call>>
  /\ UNCHANGED <<roundRobinIdle, clicks, obstacleDetected, isPathComplete, obstacles,
                 loadPending, loaded, routes, currentPathIndex, pathProgress, isMoving,
                 loops>>
  /\ pending' = (pending \ {"obstacle"}) \cup RoundRobinChanged

\* the animation effect: the clean-up cancels the frame, a new loop starts
\* when the marker moves and nothing is calculated
RoundRobinAnimationEffect ==
  /\ RoundRobinRuns("animation")
  /\ loops' = IF isMoving /\ ~isCalculating /\ Len(routes) > 0
              THEN {[last |-> -1]}
              ELSE {}
  /\ UNCHANGED <<roundRobinIdle, call, clicks, obstacleDetected, isPathComplete,
                 obstacles, loadPending, loaded, routes, currentPathIndex, pathProgress,
                 isMoving, isCalculating, timers>>
  /\ pending' = (pending \ {"animation"}) \cup RoundRobinChanged

\* a frame of the animation: setPathProgress, onPathComplete at the end
RoundRobinFrame ==
  /\ Idle
  /\ \E l \in loops :
       LET n == IF l.last = -1 THEN 0 ELSE Min(l.last + FrameStep, ProgDen)
       IN  /\ pathProgress' = n
           /\ loops' = IF n < ProgDen THEN {[last |-> n]} ELSE {}
           /\ isPathComplete' = (isPathComplete \/ n = ProgDen)
  /\ UNCHANGED <<roundRobinIdle, call, clicks, obstacleDetected, obstacles, loadPending,
                 loaded, routes, currentPathIndex, isMoving, isCalculating, timers>>
  /\ pending' = pending \cup RoundRobinChanged

\* the recalculation timer: the next route after the index the timer kept,
\* setIsCalculating(false), resetObstacleDetected()
RoundRobinRecalculate ==
  /\ Idle
  /\ timers # <<>>
  /\ Head(timers).kind = "recalculate"
  /\ LET newPathIndex == (Head(timers).currentPathIndex + 1) % Len(routes)
     IN  /\ currentPathIndex' = newPathIndex
         /\ call' = [call EXCEPT !.advances =
                       IF newPathIndex # currentPathIndex THEN @ + 1 ELSE @]
  /\ timers' = Tail(timers)
  /\ isCalculating' = FALSE
  /\ obstacleDetected' = FALSE
  /\ UNCHANGED <<roundRobinIdle, clicks, isPathComplete, obstacles, loadPending, loaded,
                 routes, pathProgress, isMoving, loops>>
  /\ pending' = pending \cup RoundRobinChanged

NextRoundRobin ==
  \/ RoundRobinLoad
  \/ RoundRobinMoveTimer
  \/ RoundRobinObstacleDetected
  \/ RoundRobinPageRerender
  \/ RoundRobinObstacleEffect
  \/ RoundRobinAnimationEffect
  \/ RoundRobinFrame
  \/ RoundRobinRecalculate

SpecRoundRobin == InitRoundRobin /\ [][NextRoundRobin]_vars

\* C29: in the round-robin variants one obstacle event advances the index
\* exactly once, to (currentPathIndex + 1) mod routes.length: for the obstacle
\* event accepted last, at most one recalculation timer is scheduled, and the
\* index changes at most once, to the index after the one at the event
C29_AdvancesOnce ==
  call.op = "roundRobin" =>
    /\ call.scheduled <= 1
    /\ call.advances <= 1
    /\ call.advances = 1 => currentPathIndex = (call.from + 1) % Len(routes)

\* ------------------------------------------------------------ location form
\* LocationForm under the Index page.  A text is a sequence of characters.
FormMaxLen == 3   \* longest text typed into a field

Whitespace == {" ", "\t"}
Letters == {"a", "b"}
Texts == UNION {[1..k -> Whitespace \cup Letters] : k \in 0..FormMaxLen}

RECURSIVE trimStart(_)
trimStart(s) == IF s # <<>> /\ Head(s) \in Whitespace THEN trimStart(Tail(s)) ELSE s

RECURSIVE trimEnd(_)
trimEnd(s) ==
  IF s # <<>> /\ s[Len(s)] \in Whitespace THEN trimEnd(SubSeq(s, 1, Len(s) - 1)) ELSE s

\* String.prototype.trim
trim(s) == trimEnd(trimStart(s))

ErrorBoth == "Please enter both source and destination"
ErrorSame == "Source and destination cannot be the same"

\* the form and the page mounted: event is the handler run last, onSubmit the
\* calls of the page's handleSubmit, stored what the page put in sessionStorage
NoForm ==
  [op |-> "form", source |-> <<>>, destination |-> <<>>, error |-> "",
   event |-> "mount", isSubmitting |-> FALSE, onSubmit |-> <<>>, stored |-> <<>>]

InitForm == InitPage /\ call = NoForm

formIdle ==
  <<sessionIdle, obstacleDetected, isPathComplete, obstacles, loaded, lastObstacleTime,
    now>>

\* onChange of the source field (the field is disabled while submitting)
setSource ==
  /\ call.op = "form"
  /\ ~call.isSubmitting
  /\ \E s \in Texts : call' = [call EXCEPT !.source = s, !.event = "change"]
  /\ UNCHANGED formIdle

\* onChange of the destination field
setDestination ==
  /\ call.op = "form"
  /\ ~call.isSubmitting
  /\ \E s \in Texts : call' = [call EXCEPT !.destination = s, !.event = "change"]
  /\ UNCHANGED formIdle

\* handleSubmit comparing the fields as typed
handleSubmitUntrimmed ==
  /\ call.op = "form"
  /\ ~call.isSubmitting
  /\ call' =
       IF call.source = <<>> \/ call.destination = <<>>
         THEN [call EXCEPT !.error = ErrorBoth, !.event = "submit"]
       ELSE IF call.source = call.destination
         THEN [call EXCEPT !.error = ErrorSame, !.event = "submit"]
       ELSE [call EXCEPT !.error = "", !.event = "submit", !.isSubmitting = TRUE,
                         !.onSubmit = Append(@, <<call.source, call.destination>>)]
  /\ UNCHANGED formIdle

\* submit of the form (the button is disabled while submitting): handleSubmit,
\* and the page's handleSubmit as onSubmit
handleSubmit ==
  /\ call.op = "form"
  /\ ~call.isSubmitting
  /\ call' =
       IF trim(call.source) = <<>> \/ trim(call.destination) = <<>>
         THEN [call EXCEPT !.error = ErrorBoth, !.event = "submit"]
       ELSE IF trim(call.source) = trim(call.destination)
         THEN [call EXCEPT !.error = ErrorSame, !.event = "submit"]
       ELSE [call EXCEPT !.error = "", !.event = "submit", !.isSubmitting = TRUE,
                         !.onSubmit = Append(@, <<call.source, call.destination>>)]
  /\ UNCHANGED formIdle

\* the page's timer: the locations go to sessionStorage, the page navigates
Navigate ==
  /\ call.op = "form"
  /\ call.isSubmitting
  /\ call.event # "navigate"
  /\ call' = [call EXCEPT !.stored = call.onSubmit[Len(call.onSubmit)],
                          !.event = "navigate"]
  /\ UNCHANGED formIdle

NextForm == setSource \/ setDestination \/ handleSubmit \/ Navigate

SpecForm == InitForm /\ [][NextForm]_vars

\* a text with a character that is not whitespace
NonBlank(s) == \E i \in 1..Len(s) : s[i] \notin Whitespace

\* the text between the first and the last character that is not whitespace
Core(s) ==
  IF ~NonBlank(s) THEN <<>>
  ELSE LET first == CHOOSE i \in 1..Len(s) :
                      s[i] \notin Whitespace /\ \A j \in 1..(i - 1) : s[j] \in Whitespace
           last == CHOOSE i \in 1..Len(s) :
                     s[i] \notin Whitespace /\ \A j \in (i + 1)..Len(s) : s[j] \in Whitespace
       IN  SubSeq(s, first, last)

FormValid ==
  /\ NonBlank(call.source)
  /\ NonBlank(call.destination)
  /\ Core(call.source) # Core(call.destination)

\* C30: LocationForm calls onSubmit only when source and destination are both
\* non-blank after trimming and differ after trimming; otherwise a submit sets
\* an error message and does not call onSubmit
C30_SubmitsOnlyValid ==
  [][call.op = "form" =>
       /\ call'.onSubmit # call.onSubmit =>
            /\ FormValid
            /\ call'.onSubmit = Append(call.onSubmit, <<call.source, call.destination>>)
       /\ (call'.event = "submit" /\ call' # call /\ ~FormValid) =>
            /\ call'.error \in {ErrorBoth, ErrorSame}
            /\ call'.onSubmit = call.onSubmit]_vars

\* a submit refused although the fields differ as typed: they are equal after
\* trimming
C30_Witness ==
  /\ call.op = "form"
  /\ call.event = "submit"
  /\ call.source # call.destination
  /\ Len(call.source) = Len(call.destination)
  /\ call.error = ErrorSame
  /\ call.onSubmit = <<>>

====
